---- MODULE Spec2Model ----
(***************************************************************************)
(* json_escape.py: read a JSON document, compact it to one line and escape *)
(* the newline sequences of the compact text (escape_json), optionally     *)
(* verify the result and copy it to the clipboard (main).                  *)
(*                                                                         *)
(* A text is a sequence of characters; a character is a one-character      *)
(* string.  Sequences are indexed from 1, so the Python index i is i+1.    *)
(***************************************************************************)
EXTENDS Integers, Sequences, FiniteSets, TLC

(***************************************************************************)
(* Characters                                                              *)
(***************************************************************************)
BS == "\\"        \* the backslash character
QUOTE == "\""     \* the double quote character
LF == "\n"        \* the line feed character
BACKSPACE == "<BS>"   \* the character U+0008, which has no TLA+ literal

DIGITS == <<"0", "1", "2", "3", "4", "5", "6", "7", "8", "9">>
DigitChars == {DIGITS[k] : k \in 1..10}
DigitVal(c) == (CHOOSE k \in 1..10 : DIGITS[k] = c) - 1

\* the characters json.loads skips between tokens
WHITESPACE == {" ", "\t", "\n", "\r"}
\* the characters below U+0020 that a strict parse refuses inside a string
ControlChars == {"\n", "\t", "\r", "\f", BACKSPACE}

(***************************************************************************)
(* Documents: what json.loads returns                                      *)
(***************************************************************************)
None == [t |-> "NoneType"]
PyBool(b) == [t |-> "bool", b |-> b]
PyInt(i) == [t |-> "int", i |-> i]
PyStr(s) == [t |-> "str", s |-> s]
PyList(items) == [t |-> "list", items |-> items]
\* a dict is its items in insertion order: a sequence of <<key, value>>
PyDict(pairs) == [t |-> "dict", pairs |-> pairs]

\* dict(pairs): a repeated key keeps its first position and its last value
RECURSIVE dict_items(_, _)
dict_items(pairs, acc) ==
    IF pairs = <<>> THEN acc
    ELSE LET p == Head(pairs)
             hit == {k \in 1..Len(acc) : acc[k][1] = p[1]}
         IN  IF hit = {}
             THEN dict_items(Tail(pairs), Append(acc, p))
             ELSE dict_items(Tail(pairs),
                             [k \in 1..Len(acc) |-> IF k \in hit THEN p ELSE acc[k]])

(***************************************************************************)
(* json.dumps(obj, separators=(item_separator, key_separator))             *)
(***************************************************************************)
\* int.__repr__
RECURSIVE NatRepr(_)
NatRepr(n) == IF n < 10 THEN <<DIGITS[n + 1]>>
              ELSE Append(NatRepr(n \div 10), DIGITS[(n % 10) + 1])
IntRepr(i) == IF i < 0 THEN <<"-">> \o NatRepr(0 - i) ELSE NatRepr(i)

\* json.encoder.ESCAPE_DCT
ESCAPE_DCT(c) ==
    CASE c = BS -> <<BS, BS>>
      [] c = QUOTE -> <<BS, QUOTE>>
      [] c = "\n" -> <<BS, "n">>
      [] c = "\r" -> <<BS, "r">>
      [] c = "\t" -> <<BS, "t">>
      [] c = "\f" -> <<BS, "f">>
      [] c = BACKSPACE -> <<BS, "b">>
      [] OTHER -> <<c>>

RECURSIVE EscapeChars(_)
EscapeChars(s) == IF s = <<>> THEN <<>>
                  ELSE ESCAPE_DCT(Head(s)) \o EscapeChars(Tail(s))
\* json.encoder.encode_basestring_ascii
encode_basestring_ascii(s) == <<QUOTE>> \o EscapeChars(s) \o <<QUOTE>>

RECURSIVE dumps(_, _, _), dumps_list(_, _, _, _), dumps_dict(_, _, _, _)
dumps(obj, item_separator, key_separator) ==
    CASE obj.t = "NoneType" -> <<"n", "u", "l", "l">>
      [] obj.t = "bool" -> IF obj.b THEN <<"t", "r", "u", "e">>
                           ELSE <<"f", "a", "l", "s", "e">>
      [] obj.t = "int" -> IntRepr(obj.i)
      [] obj.t = "str" -> encode_basestring_ascii(obj.s)
      [] obj.t = "list" ->
            <<"[">> \o dumps_list(obj.items, 1, item_separator, key_separator) \o <<"]">>
      [] obj.t = "dict" ->
            <<"{">> \o dumps_dict(obj.pairs, 1, item_separator, key_separator) \o <<"}">>
dumps_list(items, k, item_separator, key_separator) ==
    IF k > Len(items) THEN <<>>
    ELSE (IF k > 1 THEN item_separator ELSE <<>>)
         \o dumps(items[k], item_separator, key_separator)
         \o dumps_list(items, k + 1, item_separator, key_separator)
dumps_dict(pairs, k, item_separator, key_separator) ==
    IF k > Len(pairs) THEN <<>>
    ELSE (IF k > 1 THEN item_separator ELSE <<>>)
         \o encode_basestring_ascii(pairs[k][1]) \o key_separator
         \o dumps(pairs[k][2], item_separator, key_separator)
         \o dumps_dict(pairs, k + 1, item_separator, key_separator)

(***************************************************************************)
(* json.loads(s).  A result is Ok(value, end) or a JSONDecodeError.        *)
(* Fractions, exponents, NaN/Infinity and \uXXXX escapes are outside the   *)
(* alphabet of the inputs explored here.                                   *)
(***************************************************************************)
Ok(v, end) == [ok |-> TRUE, val |-> v, end |-> end]
JSONDecodeError(msg, pos) == [ok |-> FALSE, msg |-> msg, pos |-> pos]

RECURSIVE skip_ws(_, _)
skip_ws(s, idx) == IF idx <= Len(s) /\ s[idx] \in WHITESPACE
                   THEN skip_ws(s, idx + 1) ELSE idx

\* json.decoder.BACKSLASH
BACKSLASH_KEYS == {QUOTE, BS, "/", "b", "f", "n", "r", "t"}
BACKSLASH(esc) ==
    CASE esc = QUOTE -> QUOTE
      [] esc = BS -> BS
      [] esc = "/" -> "/"
      [] esc = "b" -> BACKSPACE
      [] esc = "f" -> "\f"
      [] esc = "n" -> "\n"
      [] esc = "r" -> "\r"
      [] esc = "t" -> "\t"

\* json.decoder.scanstring, strict: idx is the index after the opening quote
RECURSIVE scanstring(_, _, _)
scanstring(s, idx, acc) ==
    IF idx > Len(s) THEN JSONDecodeError("Unterminated string starting at", idx)
    ELSE IF s[idx] = QUOTE THEN Ok(acc, idx + 1)
    ELSE IF s[idx] \in ControlChars
         THEN JSONDecodeError("Invalid control character at", idx)
    ELSE IF s[idx] # BS THEN scanstring(s, idx + 1, Append(acc, s[idx]))
    ELSE IF idx + 1 > Len(s)
         THEN JSONDecodeError("Unterminated string starting at", idx)
    ELSE IF s[idx + 1] \in BACKSLASH_KEYS
         THEN scanstring(s, idx + 2, Append(acc, BACKSLASH(s[idx + 1])))
    ELSE JSONDecodeError("Invalid \\escape", idx)

\* json.scanner.NUMBER_RE, integer part: -?(0|[1-9][0-9]*)
RECURSIVE scan_digits(_, _, _)
scan_digits(s, idx, n) ==
    IF idx <= Len(s) /\ s[idx] \in DigitChars
    THEN scan_digits(s, idx + 1, 10 * n + DigitVal(s[idx]))
    ELSE Ok(n, idx)
match_number(s, idx) ==
    LET neg == s[idx] = "-"
        d == IF neg THEN idx + 1 ELSE idx
    IN  IF d > Len(s) \/ s[d] \notin DigitChars
        THEN JSONDecodeError("Expecting value", idx)
        ELSE LET m == IF s[d] = "0" THEN Ok(0, d + 1) ELSE scan_digits(s, d, 0)
             IN  Ok(PyInt(IF neg THEN 0 - m.val ELSE m.val), m.end)

StartsWith(s, idx, word) ==
    /\ idx + Len(word) - 1 <= Len(s)
    /\ SubSeq(s, idx, idx + Len(word) - 1) = word

RECURSIVE scan_once(_, _), JSONObject(_, _), object_members(_, _, _),
          JSONArray(_, _), array_items(_, _, _)
\* json.scanner.py_make_scanner._scan_once
scan_once(s, idx) ==
    IF idx > Len(s) THEN JSONDecodeError("Expecting value", idx)
    ELSE LET nextchar == s[idx] IN
         IF nextchar = QUOTE
         THEN LET r == scanstring(s, idx + 1, <<>>)
              IN  IF r.ok THEN Ok(PyStr(r.val), r.end) ELSE r
         ELSE IF nextchar = "{" THEN JSONObject(s, idx + 1)
         ELSE IF nextchar = "[" THEN JSONArray(s, idx + 1)
         ELSE IF StartsWith(s, idx, <<"n", "u", "l", "l">>) THEN Ok(None, idx + 4)
         ELSE IF StartsWith(s, idx, <<"t", "r", "u", "e">>)
              THEN Ok(PyBool(TRUE), idx + 4)
         ELSE IF StartsWith(s, idx, <<"f", "a", "l", "s", "e">>)
              THEN Ok(PyBool(FALSE), idx + 5)
         ELSE match_number(s, idx)

\* json.decoder.JSONObject: end is the index after the opening brace
JSONObject(s, end) ==
    LET e == skip_ws(s, end) IN
    IF e <= Len(s) /\ s[e] = "}" THEN Ok(PyDict(<<>>), e + 1)
    ELSE IF e > Len(s) \/ s[e] # QUOTE
         THEN JSONDecodeError("Expecting property name enclosed in double quotes", e)
    ELSE object_members(s, e + 1, <<>>)
object_members(s, end, pairs) ==
    LET key == scanstring(s, end, <<>>) IN
    IF ~key.ok THEN key ELSE
    LET colon == skip_ws(s, key.end) IN
    IF colon > Len(s) \/ s[colon] # ":"
    THEN JSONDecodeError("Expecting ':' delimiter", colon) ELSE
    LET value == scan_once(s, skip_ws(s, colon + 1)) IN
    IF ~value.ok THEN value ELSE
    LET e == skip_ws(s, value.end)
        more == Append(pairs, <<key.val, value.val>>)
    IN  IF e <= Len(s) /\ s[e] = "}" THEN Ok(PyDict(dict_items(more, <<>>)), e + 1)
        ELSE IF e > Len(s) \/ s[e] # ","
             THEN JSONDecodeError("Expecting ',' delimiter", e)
        ELSE LET q == skip_ws(s, e + 1) IN
             IF q > Len(s) \/ s[q] # QUOTE
             THEN JSONDecodeError("Expecting property name enclosed in double quotes", q)
             ELSE object_members(s, q + 1, more)

\* json.decoder.JSONArray: end is the index after the opening bracket
JSONArray(s, end) ==
    LET e == skip_ws(s, end) IN
    IF e <= Len(s) /\ s[e] = "]" THEN Ok(PyList(<<>>), e + 1)
    ELSE array_items(s, e, <<>>)
array_items(s, end, values) ==
    LET value == scan_once(s, end) IN
    IF ~value.ok THEN value ELSE
    LET e == skip_ws(s, value.end)
        more == Append(values, value.val)
    IN  IF e <= Len(s) /\ s[e] = "]" THEN Ok(PyList(more), e + 1)
        ELSE IF e > Len(s) \/ s[e] # ","
             THEN JSONDecodeError("Expecting ',' delimiter", e)
        ELSE array_items(s, skip_ws(s, e + 1), more)

\* json.loads / JSONDecoder.decode: one value, then only whitespace
loads(s) ==
    LET r == scan_once(s, skip_ws(s, 1)) IN
    IF ~r.ok THEN r
    ELSE IF skip_ws(s, r.end) # Len(s) + 1
         THEN JSONDecodeError("Extra data", skip_ws(s, r.end))
    ELSE r

(***************************************************************************)
(* str.replace(old, new): every occurrence of old, found left to right and *)
(* not overlapping, is replaced by new                                     *)
(***************************************************************************)
RECURSIVE replace_from(_, _, _, _)
replace_from(s, old, new, k) ==
    IF k > Len(s) THEN <<>>
    ELSE IF StartsWith(s, k, old)
         THEN new \o replace_from(s, old, new, k + Len(old))
         ELSE <<s[k]>> \o replace_from(s, old, new, k + 1)
\* str.replace(old, new, 1): only the first occurrence is replaced
replace_first(s, old, new) ==
    LET hits == {k \in 1..Len(s) : StartsWith(s, k, old)} IN
    IF hits = {} THEN s
    ELSE LET k == CHOOSE h \in hits : \A g \in hits : h <= g
         IN  SubSeq(s, 1, k - 1) \o new \o SubSeq(s, k + Len(old), Len(s))
str_replace(s, old, new) == replace_from(s, old, new, 1)

(***************************************************************************)
(* escape_json and the inverse substitution of --verify                    *)
(***************************************************************************)
\* json.dumps(data): the default separators ', ' and ': '
compact_default_separators(doc) == dumps(doc, <<",", " ">>, <<":", " ">>)
\* json.dumps(data, separators=(',', ':'))
compact(doc) == dumps(doc, <<",">>, <<":">>)
\* the backslash doubled twice over
escape_overdone(text) == str_replace(text, <<BS, "n">>, <<BS, BS, BS, "n">>)
\* compact_json.replace('\\n', '\\\\n')
escape(text) == str_replace(text, <<BS, "n">>, <<BS, BS, "n">>)
\* the doubled sequence turned into a line feed rather than into backslash-n
unescape_to_newline(text) == str_replace(text, <<BS, BS, "n">>, <<LF>>)
\* escaped_json.replace('\\\\n', '\\n')
unescape(text) == str_replace(text, <<BS, BS, "n">>, <<BS, "n">>)

(***************************************************************************)
(* Inputs                                                                  *)
(***************************************************************************)
MaxStrLen == 2     \* longest string value among the generated documents
MaxInt == 10       \* largest magnitude among the generated integers
MaxTextLen == 5    \* longest text given to the substitutions alone

RECURSIVE SeqsUpTo(_, _)
SeqsUpTo(chars, n) ==
    IF n = 0 THEN {<<>>}
    ELSE LET shorter == SeqsUpTo(chars, n - 1)
         IN  shorter \cup {Append(s, c) : s \in shorter, c \in chars}

StrChars == {"n", BS, LF, QUOTE}
Strings == SeqsUpTo(StrChars, MaxStrLen)
Scalars == {PyStr(s) : s \in Strings} \cup {PyInt(i) : i \in (0 - MaxInt)..MaxInt}
           \cup {None, PyBool(TRUE), PyBool(FALSE)}
Elems == {None, PyInt(0 - MaxInt), PyStr(<<"n", LF>>), PyStr(<<BS, "n">>)}
Keys == {<<"n">>, <<LF, BS>>}
KeyPairs == {p \in Keys \X Keys : p[1] # p[2]}
Flat == {PyList(<<>>), PyDict(<<>>)}
        \cup {PyList(<<e>>) : e \in Elems}
        \cup {PyList(<<e, f>>) : e \in Elems, f \in Elems}
        \cup {PyDict(<< <<k, e>> >>) : k \in Keys, e \in Elems}
        \cup {PyDict(<< <<p[1], None>>, <<p[2], f>> >>) : p \in KeyPairs, f \in Elems}
Nested == {PyList(<<c>>) : c \in Flat}
          \cup {PyDict(<< <<p[1], c>>, <<p[2], None>> >>) :
                   p \in KeyPairs, c \in {PyList(<<>>), PyDict(<<>>), PyList(<<None, None>>)}}
Documents == Scalars \cup Flat \cup Nested

\* a document as a user may have it on disk: compact, or spaced out
Spaced(doc) == <<" ">> \o dumps(doc, <<",", " ">>, <<":", " ">>) \o <<LF>>
Example == <<"{", QUOTE, "a", QUOTE, ":", QUOTE, "l", "i", "n", "e", "1",
             BS, "n", "l", "i", "n", "e", "2", QUOTE, "}">>
ExampleEscaped == <<"{", QUOTE, "a", QUOTE, ":", QUOTE, "l", "i", "n", "e", "1",
                    BS, BS, "n", "l", "i", "n", "e", "2", QUOTE, "}">>
ValidTexts == {
    Example,
    <<"{", QUOTE, "a", QUOTE, ":", "1", ",", QUOTE, "b", QUOTE, ":", "2", ",",
      QUOTE, "a", QUOTE, ":", "3", "}">>,
    <<"[", " ", "1", " ", ",", "\t", "2", LF, "]">>,
    <<QUOTE, "n", " ", "n", QUOTE>>,
    <<QUOTE, BS, "/", BS, "t", QUOTE>>,
    <<"-", "0">> }
Malformed == {
    <<>>,
    <<"{", QUOTE, "a", QUOTE, ":", "}">>,
    <<"{", QUOTE, "a", QUOTE, ":", "1">>,
    <<"{", "a", ":", "1", "}">>,
    <<"{", QUOTE, "a", QUOTE, ":", "1", ",", "}">>,
    <<"[", "1", ",", "]">>,
    <<"0", "1">>,
    <<"1", " ", "2">>,
    <<"-">>,
    <<"t", "r", "u">>,
    <<QUOTE, "a">>,
    <<QUOTE, LF, QUOTE>>,
    <<QUOTE, BS, "x", QUOTE>>,
    <<QUOTE, BS>> }
InputTexts == {compact(d) : d \in Documents} \cup {Spaced(d) : d \in Documents}
              \cup ValidTexts \cup Malformed

FILE == "credentials.json"
Filenames == {"None", "-", FILE}

(***************************************************************************)
(* State of a run of main                                                  *)
(***************************************************************************)
VARIABLES
    args,          \* the parsed command line: filename, clipboard, verify
    env,           \* what the run finds: terminal, file, content, what the read
                   \* raises, what pyperclip does
    pc,            \* the stage main is at
    json_string,   \* main: the text read
    source,        \* main: "stdin" or the file name
    data,          \* escape_json: the parsed document
    compact_json,  \* escape_json: the compact serialization
    escaped_json,  \* the value escape_json returns
    verify_json,   \* main: the text --verify parses
    stdout,        \* what was printed to standard output, in order
    stderr,        \* what was printed to the error stream, in order
    clipboard,     \* the content of the system clipboard
    exit_status,   \* the exit status, once pc = "done"
    raised,        \* the exception that ended the run, or "none"
    stdin_read,    \* whether sys.stdin.read() was called
    opened,        \* the paths given to open()
    prev           \* the outcome of the previous run on the same input

vars == <<args, env, pc, json_string, source, data, compact_json, escaped_json,
          verify_json, stdout, stderr, clipboard, exit_status, raised,
          stdin_read, opened, prev>>

Unset == [t |-> "unset"]
Payload(text) == [kind |-> "payload", text |-> text]
Help == [kind |-> "help", text |-> <<>>]

\* sys.stdin is consulted: no file name, or "-"
UsesStdin(a) == a.filename = "None" \/ a.filename = "-"
\* the terminal test without the test for a missing file name
WantsUsage_any_terminal(a, isatty) == isatty
\* line 121: usage is reported instead of reading
WantsUsage(a, isatty) == isatty /\ a.filename = "None"
\* the run attempts a read that the environment lets start
Reads(a, e) == IF UsesStdin(a) THEN ~WantsUsage(a, e.isatty) ELSE e.exists

Fresh ==
    /\ pc = "input"
    /\ json_string = <<>> /\ source = "" /\ data = Unset
    /\ compact_json = <<>> /\ escaped_json = <<>> /\ verify_json = <<>>
    /\ stdout = <<>> /\ stderr = <<>> /\ clipboard = <<>>
    /\ exit_status = 0 /\ raised = "none"
    /\ stdin_read = FALSE /\ opened = <<>>

Init ==
    /\ args \in [filename : Filenames, clipboard : BOOLEAN, verify : BOOLEAN]
    /\ env \in [isatty : BOOLEAN, exists : BOOLEAN,
                raises : {"none", "KeyboardInterrupt", "PermissionError"},
                pyperclip : {"ok", "ImportError", "PyperclipException"},
                content : InputTexts]
    \* what the run never looks at is fixed
    /\ UsesStdin(args) => env.exists = FALSE
    /\ ~Reads(args, env) => env.raises = "none"
    /\ (~Reads(args, env) \/ env.raises # "none") => env.content = <<>>
    /\ ~args.clipboard => env.pyperclip = "ok"
    /\ Fresh
    /\ prev = <<>>

(***************************************************************************)
(* The except clauses of main, lines 169-178.  SystemExit and              *)
(* KeyboardInterrupt are not subclasses of Exception.                      *)
(***************************************************************************)
IsException(type) == type \notin {"SystemExit", "KeyboardInterrupt"}
\* a bare except in place of "except Exception": SystemExit is caught too
main_except_bare(type, code) ==
    IF type = "JSONDecodeError"
    THEN [status |-> 1, err |-> <<"Error: Invalid JSON", "Tip: Ensure your file is valid JSON">>]
    ELSE IF type = "KeyboardInterrupt"
    THEN [status |-> 130, err |-> <<"Interrupted by user">>]
    ELSE [status |-> 1, err |-> <<"Unexpected error">>]
\* "except Exception" placed before "except json.JSONDecodeError"
main_except_generic_first(type, code) ==
    IF IsException(type)
    THEN [status |-> 1, err |-> <<"Unexpected error">>]
    ELSE IF type = "KeyboardInterrupt"
    THEN [status |-> 130, err |-> <<"Interrupted by user">>]
    ELSE [status |-> code, err |-> <<>>]
main_except(type, code) ==
    IF type = "JSONDecodeError"
    THEN [status |-> 1, err |-> <<"Error: Invalid JSON", "Tip: Ensure your file is valid JSON">>]
    ELSE IF type = "KeyboardInterrupt"
    THEN [status |-> 130, err |-> <<"Interrupted by user">>]
    ELSE IF IsException(type)
    THEN [status |-> 1, err |-> <<"Unexpected error">>]
    ELSE [status |-> code, err |-> <<>>]

\* an exception leaves the try block and ends the run
Raise(type, code, before) ==
    LET h == main_except(type, code) IN
    /\ raised' = type
    /\ stderr' = stderr \o before \o h.err
    /\ exit_status' = h.status
    /\ pc' = "done"

(***************************************************************************)
(* main, lines 119-134: input acquisition.  The read is where the run      *)
(* blocks: env.raises is what sys.stdin.read() or open()/f.read() raises,  *)
(* a KeyboardInterrupt (Ctrl-C while waiting) or an OSError such as        *)
(* PermissionError; later stages are not interrupted.                      *)
(***************************************************************************)
Usage ==
    /\ pc = "input" /\ UsesStdin(args) /\ WantsUsage(args, env.isatty)
    /\ stdout' = Append(stdout, Help)          \* parser.print_help()
    /\ Raise("SystemExit", 1, <<>>)
    /\ UNCHANGED <<args, env, json_string, source, data, compact_json, escaped_json,
                   verify_json, clipboard, stdin_read, opened, prev>>

ReadStdin ==
    /\ pc = "input" /\ UsesStdin(args) /\ ~WantsUsage(args, env.isatty)
    /\ stdin_read' = TRUE
    /\ IF env.raises = "none"
       THEN /\ json_string' = env.content
            /\ source' = "stdin"
            /\ pc' = "parse"
            /\ UNCHANGED <<stderr, exit_status, raised>>
       ELSE /\ Raise(env.raises, 1, <<>>)
            /\ UNCHANGED <<json_string, source>>
    /\ UNCHANGED <<args, env, data, compact_json, escaped_json, verify_json,
                   stdout, clipboard, opened, prev>>

ReadFile ==
    /\ pc = "input" /\ ~UsesStdin(args) /\ env.exists
    /\ opened' = Append(opened, args.filename)
    /\ IF env.raises = "none"
       THEN /\ json_string' = env.content
            /\ source' = args.filename
            /\ pc' = "parse"
            /\ UNCHANGED <<stderr, exit_status, raised>>
       ELSE /\ Raise(env.raises, 1, <<>>)
            /\ UNCHANGED <<json_string, source>>
    /\ UNCHANGED <<args, env, data, compact_json, escaped_json, verify_json,
                   stdout, clipboard, stdin_read, prev>>

FileNotFound ==
    /\ pc = "input" /\ ~UsesStdin(args) /\ ~env.exists
    /\ opened' = Append(opened, args.filename)
    /\ Raise("SystemExit", 1, <<"Error: File '" \o args.filename \o "' not found">>)
    /\ UNCHANGED <<args, env, json_string, source, data, compact_json, escaped_json,
                   verify_json, stdout, clipboard, stdin_read, prev>>

(***************************************************************************)
(* escape_json, lines 48-57, called at line 137                            *)
(***************************************************************************)
Parse ==
    /\ pc = "parse"
    /\ LET r == loads(json_string) IN
       IF r.ok
       THEN /\ data' = r.val
            /\ pc' = "compact"
            /\ UNCHANGED <<stderr, exit_status, raised>>
       ELSE /\ Raise("JSONDecodeError", 1, <<>>)
            /\ UNCHANGED data
    /\ UNCHANGED <<args, env, json_string, source, compact_json, escaped_json,
                   verify_json, stdout, clipboard, stdin_read, opened, prev>>

Compact ==
    /\ pc = "compact"
    /\ compact_json' = compact(data)
    /\ pc' = "escape"
    /\ UNCHANGED <<args, env, json_string, source, data, escaped_json, verify_json,
                   stdout, stderr, clipboard, exit_status, raised, stdin_read,
                   opened, prev>>

Escape ==
    /\ pc = "escape"
    /\ escaped_json' = escape(compact_json)
    /\ pc' = "verify"
    /\ UNCHANGED <<args, env, json_string, source, data, compact_json, verify_json,
                   stdout, stderr, clipboard, exit_status, raised, stdin_read,
                   opened, prev>>

(***************************************************************************)
(* main, lines 140-148: --verify                                           *)
(***************************************************************************)
\* the confirmation printed without file=sys.stderr
VerifyToStdout ==
    /\ pc = "verify"
    /\ IF args.verify
       THEN /\ verify_json' = unescape(escaped_json)
            /\ stdout' = Append(stdout, [kind |-> "status", text |-> <<>>])
       ELSE UNCHANGED <<verify_json, stdout>>
    /\ pc' = "output"
    /\ UNCHANGED <<args, env, json_string, source, data, compact_json, escaped_json,
                   stderr, clipboard, exit_status, raised, stdin_read, opened, prev>>

Verify ==
    /\ pc = "verify"
    /\ IF args.verify
       THEN /\ verify_json' = unescape(escaped_json)
            /\ stderr' = Append(stderr,
                  IF loads(unescape(escaped_json)).ok
                  THEN "Verification successful: JSON is valid"
                  ELSE "Verification warning")
       ELSE UNCHANGED <<verify_json, stderr>>
    /\ pc' = "output"
    /\ UNCHANGED <<args, env, json_string, source, data, compact_json, escaped_json,
                   stdout, clipboard, exit_status, raised, stdin_read, opened, prev>>

(***************************************************************************)
(* copy_to_clipboard, lines 59-81, and main, lines 151-167: output         *)
(***************************************************************************)
\* a failed copy reported as a success
copy_to_clipboard_swallow(text, pyperclip, board) ==
    IF pyperclip = "ok"
    THEN [ret |-> TRUE, board |-> text, err |-> <<>>]
    ELSE [ret |-> TRUE, board |-> board, err |-> <<"Failed to copy to clipboard">>]
copy_to_clipboard(text, pyperclip, board) ==
    IF pyperclip = "ok"
    THEN [ret |-> TRUE, board |-> text, err |-> <<>>]
    ELSE IF pyperclip = "ImportError"
    THEN [ret |-> FALSE, board |-> board,
          err |-> <<"Clipboard feature requires pyperclip package",
                    "Install with: pip install pyperclip",
                    "Output printed below instead:">>]
    ELSE [ret |-> FALSE, board |-> board,
          err |-> <<"Failed to copy to clipboard", "Output printed below instead:">>]

Hint(first) == <<first, "CREATE OR REPLACE SECRET GSHEET_CREDENTIALS",
                 "  TYPE = GENERIC_STRING", "  SECRET_STRING = ...">>

Output ==
    /\ pc = "output"
    /\ IF args.clipboard
       THEN LET c == copy_to_clipboard(escaped_json, env.pyperclip, clipboard) IN
            /\ clipboard' = c.board
            /\ IF c.ret
               THEN /\ stderr' = stderr \o c.err
                                 \o Hint("Copied to clipboard from " \o source)
                    /\ UNCHANGED stdout
               ELSE /\ stderr' = stderr \o c.err
                    /\ stdout' = Append(stdout, Payload(escaped_json))
       ELSE /\ stdout' = Append(stdout, Payload(escaped_json))
            /\ stderr' = stderr \o Hint("Processed " \o source \o " successfully")
            /\ UNCHANGED clipboard
    /\ pc' = "done"
    /\ UNCHANGED <<args, env, json_string, source, data, compact_json, escaped_json,
                   verify_json, exit_status, raised, stdin_read, opened, prev>>

(***************************************************************************)
(* lines 180-181: the program is run again on the same input and in the    *)
(* same environment, with --verify switched                                *)
(***************************************************************************)
Outcome == [exit_status |-> exit_status, stdout |-> stdout, clipboard |-> clipboard]
Rerun ==
    /\ pc = "done" /\ prev = <<>>
    /\ prev' = <<Outcome>>
    /\ args' = [args EXCEPT !.verify = ~args.verify]
    /\ pc' = "input"
    /\ json_string' = <<>> /\ source' = "" /\ data' = Unset
    /\ compact_json' = <<>> /\ escaped_json' = <<>> /\ verify_json' = <<>>
    /\ stdout' = <<>> /\ stderr' = <<>> /\ clipboard' = <<>>
    /\ exit_status' = 0 /\ raised' = "none"
    /\ stdin_read' = FALSE /\ opened' = <<>>
    /\ UNCHANGED env

Next == \/ Usage \/ ReadStdin \/ ReadFile \/ FileNotFound
        \/ Parse \/ Compact \/ Escape \/ Verify \/ Output \/ Rerun

Spec == Init /\ [][Next]_vars

(***************************************************************************)
(* The two substitutions on their own, on every text over TextChars        *)
(***************************************************************************)
TextChars == {BS, "n", "a"}
Texts == SeqsUpTo(TextChars, MaxTextLen)

InitText ==
    /\ args = [filename |-> "None", clipboard |-> FALSE, verify |-> TRUE]
    /\ env = [isatty |-> FALSE, exists |-> FALSE, raises |-> "none",
              pyperclip |-> "ok", content |-> <<>>]
    /\ pc = "text"
    /\ compact_json \in Texts
    /\ json_string = <<>> /\ source = "" /\ data = Unset
    /\ escaped_json = <<>> /\ verify_json = <<>>
    /\ stdout = <<>> /\ stderr = <<>> /\ clipboard = <<>>
    /\ exit_status = 0 /\ raised = "none"
    /\ stdin_read = FALSE /\ opened = <<>> /\ prev = <<>>

\* line 55
ApplyEscape ==
    /\ pc = "text"
    /\ escaped_json' = escape(compact_json)
    /\ pc' = "escaped"
    /\ UNCHANGED <<args, env, json_string, source, data, compact_json, verify_json,
                   stdout, stderr, clipboard, exit_status, raised, stdin_read,
                   opened, prev>>
\* line 144
ApplyUnescape ==
    /\ pc = "escaped"
    /\ verify_json' = unescape(escaped_json)
    /\ pc' = "restored"
    /\ UNCHANGED <<args, env, json_string, source, data, compact_json, escaped_json,
                   stdout, stderr, clipboard, exit_status, raised, stdin_read,
                   opened, prev>>

NextText == ApplyEscape \/ ApplyUnescape
SpecText == InitText /\ [][NextText]_vars

(***************************************************************************)
(* Properties                                                              *)
(***************************************************************************)
Range(seq) == {seq[k] : k \in DOMAIN seq}
\* the positions of a text where backslash-n starts
Occ(c) == {k \in 1..(Len(c) - 1) : c[k] = BS /\ c[k + 1] = "n"}
Contains(c, word) == \E k \in 1..Len(c) : StartsWith(c, k, word)
\* escape_json has returned
Escaped == pc \in {"verify", "output"} \/ (pc = "done" /\ data # Unset)
\* the run went through the output stage
ReachedOutput == pc = "done" /\ data # Unset
\* the compact serialization exists
Compacted == pc = "escape" \/ Escaped

\* C1: for every text T, also one that already holds backslash-backslash-n or
\* a longer run of backslashes before an n, unescape(escape(T)) = T.
C1_RoundTrip == pc = "restored" => verify_json = compact_json
C1_Witness ==
    /\ pc = "restored"
    /\ Contains(compact_json, <<BS, BS, BS, "n">>)
    /\ Len(escaped_json) > Len(compact_json)

Shift(c, k) == Cardinality({j \in Occ(c) : j <= k})
\* C2: escape_json returns the compact serialization of the parsed document
\* with a backslash inserted before every backslash-n and nothing else
\* changed: the character at position k of the compact text is found k plus
\* the number of occurrences starting at or before k, the character before a
\* moved occurrence is a backslash, the length grows by the number of
\* occurrences, and the example of the specification comes out as stated.
C2_EscapeJson ==
    Escaped =>
        /\ compact_json = compact(loads(json_string).val)
        /\ Len(escaped_json) = Len(compact_json) + Cardinality(Occ(compact_json))
        /\ \A k \in 1..Len(compact_json) :
               escaped_json[k + Shift(compact_json, k)] = compact_json[k]
        /\ \A k \in Occ(compact_json) :
               escaped_json[k + Shift(compact_json, k) - 1] = BS
        /\ (json_string = Example =>
               compact_json = Example /\ escaped_json = ExampleEscaped)
C2_Witness ==
    /\ ReachedOutput
    /\ Cardinality(Occ(compact_json)) >= 2
    /\ Contains(compact_json, <<BS, BS, "n">>)

ExitsEarly == \/ args.filename = "None" /\ env.isatty
              \/ ~UsesStdin(args) /\ ~env.exists
ExpectedStatus ==
    IF ExitsEarly THEN 1
    ELSE IF env.raises = "KeyboardInterrupt" THEN 130
    ELSE IF env.raises # "none" THEN 1
    ELSE IF ~loads(env.content).ok THEN 1
    ELSE 0
\* C3: a run ends with status 1 for the usage report, a missing file, invalid
\* JSON or an unexpected exception, 130 for a user interrupt and 0 otherwise;
\* the SystemExit of the usage report and of the missing file passes the
\* handlers of main untouched.
C3_ExitStatus ==
    pc = "done" =>
        /\ exit_status = ExpectedStatus
        /\ ExitsEarly =>
              /\ raised = "SystemExit"
              /\ Range(stderr) \cap {"Unexpected error", "Interrupted by user",
                                     "Error: Invalid JSON"} = {}
C3_Witness ==
    /\ pc = "done" /\ raised = "SystemExit" /\ exit_status = 1
    /\ opened = <<FILE>>

C5_VerifySucceeds ==
    /\ "Verification warning" \notin Range(stderr)
    /\ (args.verify /\ (pc = "output" \/ ReachedOutput)) =>
           "Verification successful: JSON is valid" \in Range(stderr)
    /\ (args.verify /\ ReachedOutput) => exit_status = 0
C5_Witness ==
    /\ ReachedOutput /\ args.verify
    /\ Contains(compact_json, <<BS, BS, "n">>)
    /\ "Verification successful: JSON is valid" \in Range(stderr)

\* C6: standard output holds nothing but the escaped payload; every status,
\* hint, usage and error text is on the error stream.
C6_StdoutOnlyPayload ==
    \A k \in DOMAIN stdout : stdout[k] = Payload(escaped_json)

RECURSIVE BetweenTokens(_, _, _)
\* the characters of a JSON text that are outside its string literals
BetweenTokens(s, k, inside) ==
    IF k > Len(s) THEN {}
    ELSE IF inside
         THEN IF s[k] = BS THEN BetweenTokens(s, k + 2, TRUE)
              ELSE BetweenTokens(s, k + 1, s[k] # QUOTE)
         ELSE IF s[k] = QUOTE THEN BetweenTokens(s, k + 1, TRUE)
              ELSE {s[k]} \cup BetweenTokens(s, k + 1, FALSE)
\* C7: the compact serialization of the parsed document parses back to a
\* document equal to it, keys in the same order, and has no whitespace
\* between its tokens.
C7_CompactRoundTrip ==
    Compacted =>
        /\ loads(compact_json).ok
        /\ loads(compact_json).val = data
        /\ BetweenTokens(compact_json, 1, FALSE) \cap WHITESPACE = {}
C7_Witness ==
    /\ Compacted
    /\ data.t = "dict" /\ Len(data.pairs) = 2
    /\ Len(json_string) > Len(compact_json)

UsageReported == \E k \in DOMAIN stdout : stdout[k] = Help
\* C8: no file name and a terminal: usage, status 1, standard input never
\* read; no file name and no terminal, or "-": standard input is read; any
\* other name: that file is opened and standard input is never read.
C8_InputSource ==
    IF pc = "input" THEN ~stdin_read /\ opened = <<>>
    ELSE IF args.filename = "None" /\ env.isatty
         THEN /\ ~stdin_read /\ opened = <<>>
              /\ pc = "done" /\ exit_status = 1 /\ UsageReported
    ELSE IF args.filename \in {"None", "-"}
         THEN stdin_read /\ opened = <<>>
    ELSE ~stdin_read /\ opened = <<args.filename>>
C8_Witness ==
    /\ pc = "parse" /\ args.filename = "-" /\ env.isatty
    /\ stdin_read /\ source = "stdin"

\* C9: a run and the run that differs from it only in --verify end with the
\* same exit status, standard output and clipboard; the verify stage always
\* hands over to the output stage and touches none of the three.
C9_VerifyDiagnostic ==
    /\ [](pc = "done" /\ prev # <<>> => prev[1] = Outcome)
    /\ [][pc = "verify" =>
            /\ pc' = "output"
            /\ UNCHANGED <<stdout, clipboard, exit_status, raised, escaped_json>>]_vars
C9_Witness ==
    /\ pc = "done" /\ prev # <<>> /\ data # Unset
    /\ args.clipboard /\ ~args.verify
    /\ prev[1] = Outcome

Stages == <<"input", "parse", "compact", "escape", "verify", "output", "done">>
Rank(stage) == CHOOSE k \in DOMAIN Stages : Stages[k] = stage
MissingFile == ~UsesStdin(args) /\ ~env.exists
InvalidInput == Reads(args, env) /\ env.raises = "none" /\ ~loads(env.content).ok
\* C10: the stages follow one another in the order input, parse, compact,
\* escape, verify, output; a run that ends because the file is missing or the
\* input is not valid JSON has printed nothing to standard output, has left
\* the clipboard alone and has written the matching error to the error stream.
C10_FailBeforeOutput ==
    /\ [](/\ (pc = "done" /\ (MissingFile \/ InvalidInput)) =>
                /\ exit_status = 1 /\ stdout = <<>> /\ clipboard = <<>>
                /\ MissingFile =>
                      ("Error: File '" \o args.filename \o "' not found") \in Range(stderr)
                /\ InvalidInput => "Error: Invalid JSON" \in Range(stderr)
          /\ (stdout # <<>> \/ clipboard # <<>>) => pc = "done"
          /\ IF Rank(pc) <= Rank("parse") THEN data = Unset
             ELSE pc # "done" => data # Unset
          /\ IF Rank(pc) <= Rank("compact") THEN compact_json = <<>>
             ELSE data # Unset => compact_json # <<>>
          /\ IF Rank(pc) <= Rank("escape") THEN escaped_json = <<>>
             ELSE data # Unset => escaped_json # <<>>
          /\ Rank(pc) <= Rank("verify") => verify_json = <<>>)
    /\ [][(pc' # pc /\ prev' = prev) =>
            \/ pc' = "done" /\ Rank(pc) <= Rank("parse")
            \/ Rank(pc') = Rank(pc) + 1]_vars
C10_Witness ==
    /\ pc = "done" /\ raised = "JSONDecodeError" /\ exit_status = 1
    /\ stdout = <<>> /\ json_string # <<>>
====
